---- MODULE Spec2Model ----
(***************************************************************************)
(* State-machine model of BanService (src/src/ban_service.rs): the ban     *)
(* table behind one reader/writer lock, the six public operations called   *)
(* by concurrent tasks, and the wall clock the timestamps are taken from.  *)
(*                                                                         *)
(* A call is a sequence of steps: the code before the lock is taken, the   *)
(* taking of the lock, and the code run under the guard up to its drop.    *)
(* An index past the end of the table is a panic: the guard is dropped by  *)
(* the unwinding and the task never returns.  The clock is taken to be     *)
(* non-decreasing.                                                         *)
(*                                                                         *)
(* Spec       two tasks, every interleaving, two reasons                   *)
(* SpecSeq    one task, every address and topology, three reasons          *)
(* SpecExpiry one task on one replica, every reason and ban_time           *)
(* SpecStats  two tasks with and without a stats sink, primary and replica *)
(* SpecCounters one task, primary and replica, every reason, sink or none  *)
(* SpecFair   two tasks under a fair scheduler and a fair lock             *)
(* SpecMaint  a banning task and the maintenance scheduler, fair           *)
(***************************************************************************)
EXTENDS Bags, FiniteSets, Integers, Sequences, TLC

(* ---------------------------------------------------------------------- *)
(* Bounds of the model                                                    *)
(* ---------------------------------------------------------------------- *)

\* The wall clock runs over 0..MaxClock (seconds) when one task calls at a
\* time, and over 0..MaxClockConcurrent when two tasks interleave.
MaxClock == 3

MaxClockConcurrent == 1

\* An endpoint's error counter stops at MaxErrors.
MaxErrors == 1

\* At most MaxBans ban calls pass the primary check (each emits a ban event).
MaxBans == 2

\* The wall clock runs over 0..MaxClockMaint while the maintenance loop runs.
MaxClockMaint == 3

(* ---------------------------------------------------------------------- *)
(* Data: roles, addresses, reasons, verdicts                              *)
(* ---------------------------------------------------------------------- *)

Role == {"Primary", "Replica"}

\* Address: the registry reads its shard index and its role; equality and
\* hashing are over the whole identity.
P0 == [id |-> "p0", shard |-> 0, role |-> "Primary"]
R1 == [id |-> "r1", shard |-> 0, role |-> "Replica"]
R2 == [id |-> "r2", shard |-> 0, role |-> "Replica"]
R3 == [id |-> "r3", shard |-> 1, role |-> "Replica"]

Addresses == {P0, R1, R2, R3}

\* pool_addresses values handed to should_unban: one list of addresses per
\* shard.  Two shards (so pool_addresses[address.shard] is always inside the
\* list); shard 0 is configured with two replicas or with one.
Topologies ==
    { <<  <<P0, R1, R2>>, <<R3>>  >>,
      <<  <<P0, R1>>,     <<R3>>  >> }

\* enum BanReason
AutoKinds ==
    {"FailedHealthCheck", "MessageSendFailed", "MessageReceiveFailed",
     "FailedCheckout", "StatementTimeout"}

AdminDurations == {1, 2}

BanTimes == {1, 2}

Auto(k) == [kind |-> k, duration |-> 0]

AdminBan(d) == [kind |-> "AdminBan", duration |-> d]

BanReason ==
    {Auto(k) : k \in AutoKinds} \cup {AdminBan(d) : d \in AdminDurations}

\* enum UnbanReason, plus the None of Option<UnbanReason>
UnbanReason == {"AllReplicasBanned", "BanTimeExceeded", "PrimaryBanned", "NotBanned"}

Threads == {"t1", "t2"}

(* ---------------------------------------------------------------------- *)
(* State                                                                  *)
(* ---------------------------------------------------------------------- *)

VARIABLES
    banlist,            \* Vec<HashMap<Address, (BanReason, NaiveDateTime)>>
    replica_to_primary_failover_enabled,
    ban_time,
    lock,               \* the RwLock around banlist: [writer, readers]
    clock,              \* chrono::offset::Utc::now(), in seconds
    error_count,        \* address.increment_error_count(), per address
    ban_errors,         \* client_info.ban_error() notifications of the sink
    stats_errors,       \* address.stats.error(), per address
    ban_events,         \* error!("Banning instance ...") events
    pc,                 \* where each task is inside a call
    frame,              \* arguments and locals of each task's call
    ret,                \* the last call each task completed, and its result
    last_ban            \* per address: the ban call whose record is in force

vars == <<banlist, replica_to_primary_failover_enabled, ban_time, lock, clock,
          error_count, ban_errors, stats_errors, ban_events, pc, frame, ret,
          last_ban>>

config == <<replica_to_primary_failover_enabled, ban_time>>

counters == <<error_count, ban_errors, stats_errors, ban_events>>

(* ---------------------------------------------------------------------- *)
(* HashMap<Address, (BanReason, NaiveDateTime)> as a set of entries       *)
(* ---------------------------------------------------------------------- *)

Entry(a, r, ts) == [address |-> a, reason |-> r, timestamp |-> ts]

\* HashMap::get
MapGet(m, a) == {e \in m : e.address = a}

\* an insert that replaces the reason stored under the key and keeps the
\* timestamp that was stored with it
MapInsertOldStamp(m, new) ==
    {e \in m : e.address # new.address} \cup
    {[new EXCEPT !.timestamp =
         IF \E e \in m : e.address = new.address
         THEN (CHOOSE e \in m : e.address = new.address).timestamp
         ELSE new.timestamp]}

\* an insert that keeps the value already stored under the key
MapInsertKeep(m, new) == m \cup {new}

\* HashMap::insert: the new value replaces the one stored under the key
MapInsert(m, new) == {e \in m : e.address # new.address} \cup {new}

\* HashMap::remove
MapRemove(m, a) == {e \in m : e.address # a}

\* HashMap::len
MapLen(m) == Cardinality(m)

\* Vec indexing guard[address.shard]: inside the vector or a panic
InRange(table, shard) == shard + 1 \in DOMAIN table

Slot(table, shard) == table[shard + 1]

SetSlot(table, shard, m) == [table EXCEPT ![shard + 1] = m]

(* ---------------------------------------------------------------------- *)
(* Construction                                                           *)
(* ---------------------------------------------------------------------- *)

\* vec![HashMap::new()]: the number of slots BanService::new allocates
InitialSlots == 1

\* BanService::new(replica_to_primary_failover_enabled, ban_time)
new(failover, time) ==
    /\ banlist = [i \in 1..InitialSlots |-> {}]
    /\ replica_to_primary_failover_enabled = failover
    /\ ban_time = time

NoFrame == [op |-> "none"]

NoRet == [op |-> "none"]

NoBan == [op |-> "none"]

InitWith(times) ==
    /\ \E failover \in BOOLEAN, time \in times : new(failover, time)
    /\ lock = [writer |-> "none", readers |-> {}]
    /\ clock = 0
    /\ error_count = [a \in Addresses |-> 0]
    /\ ban_errors = 0
    /\ stats_errors = [a \in Addresses |-> 0]
    /\ ban_events = 0
    /\ pc = [t \in Threads |-> "idle"]
    /\ frame = [t \in Threads |-> NoFrame]
    /\ ret = [t \in Threads |-> NoRet]
    /\ last_ban = [a \in Addresses |-> NoBan]

(* ---------------------------------------------------------------------- *)
(* parking_lot::RwLock                                                    *)
(* ---------------------------------------------------------------------- *)

\* RwLock::write: exclusive, waits for the writer and for every reader
CanWrite(l) == l.writer = "none" /\ l.readers = {}

\* RwLock::read: shared, waits for the writer
CanRead(l) == l.writer = "none"

LockWrite(l, t) == [l EXCEPT !.writer = t]

LockRead(l, t) == [l EXCEPT !.readers = @ \cup {t}]

\* a drop that gives up exclusive access only, so that a reader keeps its
\* shared access across the rest of its call
UnlockWriterOnly(l, t) ==
    [writer |-> IF l.writer = t THEN "none" ELSE l.writer,
     readers |-> l.readers]

\* dropping the guard, on return and on unwinding from a panic alike
Unlock(l, t) ==
    [writer |-> IF l.writer = t THEN "none" ELSE l.writer,
     readers |-> l.readers \ {t}]

(* ---------------------------------------------------------------------- *)
(* Steps shared by the operations                                         *)
(* ---------------------------------------------------------------------- *)

\* the call returns value v to task t
Return(t, op, a, v) ==
    /\ pc' = [pc EXCEPT ![t] = "done"]
    /\ frame' = [frame EXCEPT ![t] = NoFrame]
    /\ ret' = [ret EXCEPT ![t] = [op |-> op, address |-> a, value |-> v]]

\* a call starts
Enter(t, at, f) ==
    /\ pc' = [pc EXCEPT ![t] = at]
    /\ frame' = [frame EXCEPT ![t] = f]
    /\ UNCHANGED ret

\* index out of bounds: the task unwinds, the call never returns
Panic(t) ==
    /\ pc' = [pc EXCEPT ![t] = "panicked"]
    /\ UNCHANGED <<frame, ret>>

\* the caller has taken the result and is free to call again
resume(t) ==
    /\ pc[t] = "done"
    /\ pc' = [pc EXCEPT ![t] = "idle"]
    /\ ret' = [ret EXCEPT ![t] = NoRet]
    /\ UNCHANGED <<banlist, config, lock, clock, counters, frame, last_ban>>

\* the wall clock advances
Tick(max) ==
    /\ clock < max
    /\ clock' = clock + 1
    /\ UNCHANGED <<banlist, config, lock, counters, pc, frame, ret, last_ban>>

(* ---------------------------------------------------------------------- *)
(* ban                                                                    *)
(* ---------------------------------------------------------------------- *)

\* a ban that counts no reason as an error of the endpoint
CountsNothing(reason) == FALSE

\* a ban that counts every reason as an error of the endpoint
CountsEveryReason(reason) == TRUE

\* the reasons that count as an error of the endpoint (lines 57-65)
CountsAsError(reason) ==
    reason.kind \in {"FailedHealthCheck", "FailedCheckout",
                     "MessageSendFailed", "MessageReceiveFailed"}

\* a ban that also takes primaries
BanRefusesNothing(address) == FALSE

\* lines 67-70: primary can never be banned
BanRefuses(address) == address.role = "Primary"

\* a ban record stamped with the epoch instead of the time of the call
BanRecordEpoch(address, reason, now) == Entry(address, reason, 0)

\* lines 72 and 81: the record ban stores is (reason, now)
BanRecord(address, reason, now) == Entry(address, reason, now)

\* lines 54-73: count the error, leave on a primary, read the clock, log.
\* The two counters are kept inside MaxErrors and MaxBans.
ban_enter(t, address, reason, client_info) ==
    /\ pc[t] = "idle"
    /\ CountsAsError(reason) => error_count[address] < MaxErrors
    /\ error_count' =
         IF CountsAsError(reason)
         THEN [error_count EXCEPT ![address] = @ + 1]
         ELSE error_count
    /\ IF BanRefuses(address)
       THEN /\ Return(t, "ban", address, "unit")
            /\ UNCHANGED ban_events
       ELSE /\ ban_events < MaxBans
            /\ ban_events' = ban_events + 1
            /\ Enter(t, "ban_write",
                 [op |-> "ban", address |-> address, reason |-> reason,
                  client_info |-> client_info, now |-> clock,
                  started |-> clock])
    /\ UNCHANGED <<banlist, config, lock, clock, ban_errors, stats_errors,
                   last_ban>>

\* a ban that leaves the sink it was given alone
NotifiesNever(client_info) == FALSE

\* line 76: if let Some(client_info) = client_info
Notifies(client_info) == client_info

\* lines 74-79: self.banlist.write(), then the stats sink when one was
\* supplied, both before the insert and under the same guard
ban_write(t) ==
    /\ pc[t] = "ban_write"
    /\ CanWrite(lock)
    /\ lock' = LockWrite(lock, t)
    /\ IF Notifies(frame[t].client_info)
       THEN /\ ban_errors' = ban_errors + 1
            /\ stats_errors' = [stats_errors EXCEPT ![frame[t].address] = @ + 1]
       ELSE UNCHANGED <<ban_errors, stats_errors>>
    /\ pc' = [pc EXCEPT ![t] = "ban_insert"]
    /\ UNCHANGED <<banlist, config, clock, error_count, ban_events,
                   frame, ret, last_ban>>

\* lines 81-82: guard[address.shard].insert(...), then the guard is dropped
ban_insert(t) ==
    LET f == frame[t] IN
    /\ pc[t] = "ban_insert"
    /\ lock' = Unlock(lock, t)
    /\ IF InRange(banlist, f.address.shard)
       THEN /\ banlist' = SetSlot(banlist, f.address.shard,
                 MapInsert(Slot(banlist, f.address.shard),
                           BanRecord(f.address, f.reason, f.now)))
            /\ last_ban' = [last_ban EXCEPT ![f.address] =
                 [op |-> "ban", reason |-> f.reason, started |-> f.started,
                  client_info |-> f.client_info,
                  replaced |-> {e.reason : e \in
                      MapGet(Slot(banlist, f.address.shard), f.address)}]]
            /\ Return(t, "ban", f.address, "unit")
       ELSE /\ Panic(t)
            /\ UNCHANGED <<banlist, last_ban>>
    /\ UNCHANGED <<config, clock, counters>>

(* ---------------------------------------------------------------------- *)
(* unban                                                                  *)
(* ---------------------------------------------------------------------- *)

\* lines 87-88: self.banlist.write()
unban_write(t, address) ==
    /\ pc[t] = "idle"
    /\ CanWrite(lock)
    /\ lock' = LockWrite(lock, t)
    /\ Enter(t, "unban_remove", [op |-> "unban", address |-> address])
    /\ UNCHANGED <<banlist, config, clock, counters, last_ban>>

\* an unban that empties the mapping of the shard
UnbannedShard(m, address) == {}

\* the mapping of a shard after unban(address)
Unbanned(m, address) == MapRemove(m, address)

\* lines 89-90: guard[address.shard].remove(address)
unban_remove(t) ==
    LET a == frame[t].address IN
    /\ pc[t] = "unban_remove"
    /\ lock' = Unlock(lock, t)
    /\ IF InRange(banlist, a.shard)
       THEN /\ banlist' = SetSlot(banlist, a.shard,
                                  Unbanned(Slot(banlist, a.shard), a))
            /\ last_ban' = [last_ban EXCEPT ![a] = NoBan]
            /\ Return(t, "unban", a, "unit")
       ELSE /\ Panic(t)
            /\ UNCHANGED <<banlist, last_ban>>
    /\ UNCHANGED <<config, clock, counters>>

(* ---------------------------------------------------------------------- *)
(* is_banned                                                              *)
(* ---------------------------------------------------------------------- *)

\* line 95: self.banlist.read()
is_banned_read(t, address) ==
    /\ pc[t] = "idle"
    /\ CanRead(lock)
    /\ lock' = LockRead(lock, t)
    /\ Enter(t, "is_banned_get", [op |-> "is_banned", address |-> address])
    /\ UNCHANGED <<banlist, config, clock, counters, last_ban>>

\* lines 97-103, for an address whose shard is inside the table
is_banned(table, address) == MapGet(Slot(table, address.shard), address) # {}

is_banned_get(t) ==
    LET a == frame[t].address IN
    /\ pc[t] = "is_banned_get"
    /\ lock' = Unlock(lock, t)
    /\ IF InRange(banlist, a.shard)
       THEN Return(t, "is_banned", a,
                   IF is_banned(banlist, a) THEN "true" ELSE "false")
       ELSE Panic(t)
    /\ UNCHANGED <<banlist, config, clock, counters, last_ban>>

(* ---------------------------------------------------------------------- *)
(* get_bans                                                               *)
(* ---------------------------------------------------------------------- *)

\* lines 110-114: every entry of every mapping is pushed once; the order of
\* the pushes is the mappings' iteration order, which the result leaves open
RECURSIVE PushAll(_, _)
PushAll(table, i) ==
    IF i = 0 THEN EmptyBag ELSE PushAll(table, i - 1) (+) SetToBag(table[i])

get_bans(table) == PushAll(table, Len(table))

\* line 109: self.banlist.read()
get_bans_read(t) ==
    /\ pc[t] = "idle"
    /\ CanRead(lock)
    /\ lock' = LockRead(lock, t)
    /\ Enter(t, "get_bans_iter", [op |-> "get_bans"])
    /\ UNCHANGED <<banlist, config, clock, counters, last_ban>>

get_bans_iter(t) ==
    /\ pc[t] = "get_bans_iter"
    /\ lock' = Unlock(lock, t)
    /\ pc' = [pc EXCEPT ![t] = "done"]
    /\ frame' = [frame EXCEPT ![t] = NoFrame]
    /\ ret' = [ret EXCEPT ![t] = [op |-> "get_bans", bans |-> get_bans(banlist)]]
    /\ UNCHANGED <<banlist, config, clock, counters, last_ban>>

(* ---------------------------------------------------------------------- *)
(* unban_all_replicas                                                     *)
(* ---------------------------------------------------------------------- *)

\* line 122: self.banlist.write()
unban_all_replicas_write(t, address) ==
    /\ pc[t] = "idle"
    /\ CanWrite(lock)
    /\ lock' = LockWrite(lock, t)
    /\ Enter(t, "unban_all_replicas_clear",
             [op |-> "unban_all_replicas", address |-> address])
    /\ UNCHANGED <<banlist, config, clock, counters, last_ban>>

\* HashMap::clear on the mapping of a shard
Cleared(m) == {}

\* line 124: write_guard[address.shard].clear()
unban_all_replicas_clear(t) ==
    LET a == frame[t].address IN
    /\ pc[t] = "unban_all_replicas_clear"
    /\ lock' = Unlock(lock, t)
    /\ IF InRange(banlist, a.shard)
       THEN /\ banlist' = SetSlot(banlist, a.shard, Cleared(Slot(banlist, a.shard)))
            /\ last_ban' = [x \in Addresses |->
                 IF x.shard = a.shard THEN NoBan ELSE last_ban[x]]
            /\ Return(t, "unban_all_replicas", a, "unit")
       ELSE /\ Panic(t)
            /\ UNCHANGED <<banlist, last_ban>>
    /\ UNCHANGED <<config, clock, counters>>

(* ---------------------------------------------------------------------- *)
(* should_unban                                                           *)
(* ---------------------------------------------------------------------- *)

IsReplica(addr) == addr.role = "Replica"

\* a count that takes every address configured for the shard, primary included
AddressesAvailable(pool_addresses, address) ==
    Len(pool_addresses[address.shard + 1])

\* lines 153-156: the Replica-role addresses configured for the shard
ReplicasAvailable(pool_addresses, address) ==
    Len(SelectSeq(pool_addresses[address.shard + 1], IsReplica))

\* a comparison that asks for more entries than there are replicas
AllReplicasBannedStrict(m, replicas_available) == MapLen(m) > replicas_available

\* line 161: read_guard[address.shard].len() == replicas_available
AllReplicasBanned(m, replicas_available) == MapLen(m) = replicas_available

\* an expiry check that never fires
ExceededNever(record, now, time) == FALSE

\* an expiry check that holds every reason to ban_time
ExceededBanTimeGlobal(record, now, time) == now - record.timestamp > time

\* an expiry check that already fires when the threshold is reached
ExceededBanTimeInclusive(record, now, time) ==
    IF record.reason.kind = "AdminBan"
    THEN now - record.timestamp >= record.reason.duration
    ELSE now - record.timestamp >= time

\* lines 174-179: the threshold is the admin ban's own duration, or ban_time
ExceededBanTime(record, now, time) ==
    IF record.reason.kind = "AdminBan"
    THEN now - record.timestamp > record.reason.duration
    ELSE now - record.timestamp > time

\* lines 185-190
Verdict(exceeded_ban_time) ==
    IF exceeded_ban_time THEN "BanTimeExceeded" ELSE "None"

\* a lookup that answers "stay banned" when it finds no record
LookupStayBanned(found, now, time) ==
    IF found = {} THEN {"None"}
    ELSE {Verdict(ExceededBanTime(record, now, time)) : record \in found}

\* lines 171-190: the verdict for what get(address) found at time now
Lookup(found, now, time) ==
    IF found = {} THEN {"NotBanned"}
    ELSE {Verdict(ExceededBanTime(record, now, time)) : record \in found}

\* a should_unban that counts the banned replicas under either setting
ChecksAllReplicasAlways(failover) == TRUE

\* line 151: if !self.replica_to_primary_failover_enabled
ChecksAllReplicas(failover) == ~failover

\* lines 144-158: a primary is answered at once; the replica count is taken
\* only when failover to the primary is disabled
should_unban_enter(t, pool_addresses, address) ==
    /\ pc[t] = "idle"
    /\ IF address.role = "Primary"
       THEN Return(t, "should_unban", address, "PrimaryBanned")
       ELSE IF ChecksAllReplicas(replica_to_primary_failover_enabled)
            THEN Enter(t, "should_unban_read1",
                       [op |-> "should_unban", address |-> address,
                        pool_addresses |-> pool_addresses,
                        replicas_available |->
                            ReplicasAvailable(pool_addresses, address),
                        was_banned |-> FALSE])
            ELSE Enter(t, "should_unban_read2",
                       [op |-> "should_unban", address |-> address])
    /\ UNCHANGED <<banlist, config, lock, clock, counters, last_ban>>

\* line 160: self.banlist.read()
should_unban_read1(t) ==
    /\ pc[t] = "should_unban_read1"
    /\ CanRead(lock)
    /\ lock' = LockRead(lock, t)
    /\ pc' = [pc EXCEPT ![t] = "should_unban_count"]
    /\ UNCHANGED <<banlist, config, clock, counters, frame, ret, last_ban>>

\* lines 161-166: compare, drop the guard, return when all are banned.  The
\* frame notes whether the endpoint had a record under this first guard.
should_unban_count(t) ==
    LET f == frame[t] IN
    /\ pc[t] = "should_unban_count"
    /\ lock' = Unlock(lock, t)
    /\ IF ~InRange(banlist, f.address.shard)
       THEN Panic(t)
       ELSE IF AllReplicasBanned(Slot(banlist, f.address.shard),
                                 f.replicas_available)
            THEN Return(t, "should_unban", f.address, "AllReplicasBanned")
            ELSE /\ pc' = [pc EXCEPT ![t] = "should_unban_read2"]
                 /\ frame' = [frame EXCEPT ![t].was_banned =
                                 is_banned(banlist, f.address)]
                 /\ UNCHANGED ret
    /\ UNCHANGED <<banlist, config, clock, counters, last_ban>>

\* line 170: self.banlist.read()
should_unban_read2(t) ==
    /\ pc[t] = "should_unban_read2"
    /\ CanRead(lock)
    /\ lock' = LockRead(lock, t)
    /\ pc' = [pc EXCEPT ![t] = "should_unban_get"]
    /\ UNCHANGED <<banlist, config, clock, counters, frame, ret, last_ban>>

\* whether the call saw a record of its endpoint under its first guard
WasBanned(f) ==
    ChecksAllReplicas(replica_to_primary_failover_enabled) /\ f.was_banned

\* lines 171-190: look the record up, read the clock, decide.  The result
\* keeps the note of the first guard next to the verdict.
should_unban_get(t) ==
    LET a == frame[t].address IN
    /\ pc[t] = "should_unban_get"
    /\ lock' = Unlock(lock, t)
    /\ IF ~InRange(banlist, a.shard)
       THEN Panic(t)
       ELSE \E v \in Lookup(MapGet(Slot(banlist, a.shard), a), clock, ban_time) :
              /\ pc' = [pc EXCEPT ![t] = "done"]
              /\ frame' = [frame EXCEPT ![t] = NoFrame]
              /\ ret' = [ret EXCEPT ![t] =
                   [op |-> "should_unban", address |-> a, value |-> v,
                    was_banned |-> WasBanned(frame[t])]]
    /\ UNCHANGED <<banlist, config, clock, counters, last_ban>>

(* ---------------------------------------------------------------------- *)
(* Specification                                                          *)
(* ---------------------------------------------------------------------- *)

\* one step: the clock advances up to max, or one of the tasks T moves, the
\* addresses it passes drawn from addrs, its ban reasons from reasons and its
\* stats sink from sinks (TRUE: Some)
Step(T, addrs, reasons, sinks, max) ==
    \/ Tick(max)
    \/ \E t \in T, a \in addrs, r \in reasons, c \in sinks :
         ban_enter(t, a, r, c)
    \/ \E t \in T : ban_write(t)
    \/ \E t \in T : ban_insert(t)
    \/ \E t \in T, a \in addrs : unban_write(t, a)
    \/ \E t \in T : unban_remove(t)
    \/ \E t \in T, a \in addrs : is_banned_read(t, a)
    \/ \E t \in T : is_banned_get(t)
    \/ \E t \in T : get_bans_read(t)
    \/ \E t \in T : get_bans_iter(t)
    \/ \E t \in T, a \in addrs : unban_all_replicas_write(t, a)
    \/ \E t \in T : unban_all_replicas_clear(t)
    \/ \E t \in T, p \in Topologies, a \in addrs :
         should_unban_enter(t, p, a)
    \/ \E t \in T : should_unban_read1(t)
    \/ \E t \in T : should_unban_count(t)
    \/ \E t \in T : should_unban_read2(t)
    \/ \E t \in T : should_unban_get(t)
    \/ \E t \in T : resume(t)

\* Concurrent callers: every interleaving of two tasks.
ConcurrentReasons == {Auto("StatementTimeout"), AdminBan(1)}

ConcurrentBanTimes == {0}

Init == InitWith(ConcurrentBanTimes)

Next == Step(Threads, Addresses, ConcurrentReasons, {FALSE}, MaxClockConcurrent)

Spec == Init /\ [][Next]_vars

\* One caller at a time, on every address and under every topology.
SeqReasons ==
    {Auto("FailedHealthCheck"), Auto("StatementTimeout"), AdminBan(1)}

SeqBanTimes == {1}

InitSeq == InitWith(SeqBanTimes)

NextSeq == Step({"t1"}, Addresses, SeqReasons, {FALSE}, MaxClock)

SpecSeq == InitSeq /\ [][NextSeq]_vars

\* One caller at a time on one replica: every reason, every setting of
\* ban_time, and a clock that passes every threshold.
InitExpiry == InitWith(BanTimes)

NextExpiry == Step({"t1"}, {R1}, BanReason, {FALSE}, MaxClock)

SpecExpiry == InitExpiry /\ [][NextExpiry]_vars

\* Concurrent callers that pass a stats sink or none, on the primary and one
\* replica of shard 0.
StatsAddresses == {P0, R1}

StatsReasons == {Auto("FailedCheckout")}

InitStats == InitWith(ConcurrentBanTimes)

NextStats ==
    Step(Threads, StatsAddresses, StatsReasons, BOOLEAN, MaxClockConcurrent)

SpecStats == InitStats /\ [][NextStats]_vars

\* One caller at a time on the primary and one replica of shard 0: every
\* reason, with a stats sink and without.
InitCounters == InitWith(ConcurrentBanTimes)

NextCounters ==
    Step({"t1"}, StatsAddresses, BanReason, BOOLEAN, MaxClockConcurrent)

SpecCounters == InitCounters /\ [][NextCounters]_vars

\* Concurrent callers under a fair scheduler and a fair lock, on a replica of
\* shard 0 and the replica of shard 1.  A task that waits for the lock gets it
\* when it is free again and again (parking_lot's lock is eventually fair);
\* a task that runs under a guard goes on to drop it.  Nothing obliges a
\* caller to start a call.
Acquire(t) ==
    ban_write(t) \/ should_unban_read1(t) \/ should_unban_read2(t)

UnderGuard(t) ==
    \/ ban_insert(t)
    \/ unban_remove(t)
    \/ is_banned_get(t)
    \/ get_bans_iter(t)
    \/ unban_all_replicas_clear(t)
    \/ should_unban_count(t)
    \/ should_unban_get(t)

Fairness ==
    \A t \in Threads : SF_vars(Acquire(t)) /\ WF_vars(UnderGuard(t))

FairAddresses == {R1, R3}

FairReasons == {AdminBan(1)}

InitFair == InitWith(ConcurrentBanTimes)

NextFair ==
    Step(Threads, FairAddresses, FairReasons, {FALSE}, MaxClockConcurrent)

SpecFair == InitFair /\ [][NextFair]_vars /\ Fairness

(* ---------------------------------------------------------------------- *)
(* The maintenance loop                                                   *)
(* ---------------------------------------------------------------------- *)

\* One task bans the replicas of shard 0, the other is the maintenance
\* scheduler of section 2 of the specification: for a banned
\* endpoint it calls should_unban and, on a positive verdict, unban, or
\* unban_all_replicas when the verdict is AllReplicasBanned.
ClientThread == "t1"

MaintThread == "t2"

MaintAddresses == {R1, R2}

MaintReasons == {Auto("StatementTimeout"), AdminBan(2)}

\* the longest time a ban of the model is held
LongestBan ==
    CHOOSE d \in AdminDurations \cup BanTimes :
       \A x \in AdminDurations \cup BanTimes : x <= d

\* bans stop early enough for the clock to pass every threshold
LastBanTime == MaxClockMaint - (LongestBan + 1)

\* the scheduler asks about an endpoint that is banned
maint_check(t, pool_addresses, address) ==
    /\ address \in {e.address : e \in UNION {banlist[i] : i \in DOMAIN banlist}}
    /\ should_unban_enter(t, pool_addresses, address)

\* a positive verdict on the endpoint: the scheduler calls unban(address)
maint_unban(t) ==
    /\ pc[t] = "done"
    /\ ret[t].op = "should_unban"
    /\ ret[t].value \in {"BanTimeExceeded", "NotBanned", "PrimaryBanned"}
    /\ CanWrite(lock)
    /\ lock' = LockWrite(lock, t)
    /\ Enter(t, "unban_remove", [op |-> "unban", address |-> ret[t].address])
    /\ UNCHANGED <<banlist, config, clock, counters, last_ban>>

\* AllReplicasBanned: the scheduler calls unban_all_replicas(address)
maint_unban_all(t) ==
    /\ pc[t] = "done"
    /\ ret[t].op = "should_unban"
    /\ ret[t].value = "AllReplicasBanned"
    /\ CanWrite(lock)
    /\ lock' = LockWrite(lock, t)
    /\ Enter(t, "unban_all_replicas_clear",
             [op |-> "unban_all_replicas", address |-> ret[t].address])
    /\ UNCHANGED <<banlist, config, clock, counters, last_ban>>

\* no verdict, or the unban is done: the scheduler goes on to its next round
maint_next(t) ==
    /\ ret[t].op = "should_unban" => ret[t].value = "None"
    /\ resume(t)

Maintenance(t) ==
    \/ \E p \in Topologies, a \in Addresses : maint_check(t, p, a)
    \/ should_unban_read1(t)
    \/ should_unban_count(t)
    \/ should_unban_read2(t)
    \/ should_unban_get(t)
    \/ maint_unban(t)
    \/ maint_unban_all(t)
    \/ unban_remove(t)
    \/ unban_all_replicas_clear(t)
    \/ maint_next(t)

InitMaint == InitWith(BanTimes)

NextMaint ==
    \/ Tick(MaxClockMaint)
    \/ \E a \in MaintAddresses, r \in MaintReasons :
         clock <= LastBanTime /\ ban_enter(ClientThread, a, r, FALSE)
    \/ ban_write(ClientThread)
    \/ ban_insert(ClientThread)
    \/ resume(ClientThread)
    \/ \E p \in Topologies, a \in Addresses : maint_check(MaintThread, p, a)
    \/ should_unban_read1(MaintThread)
    \/ should_unban_count(MaintThread)
    \/ should_unban_read2(MaintThread)
    \/ should_unban_get(MaintThread)
    \/ maint_unban(MaintThread)
    \/ maint_unban_all(MaintThread)
    \/ unban_remove(MaintThread)
    \/ unban_all_replicas_clear(MaintThread)
    \/ maint_next(MaintThread)

\* the clock keeps advancing, a ban that has started runs to its end, and the
\* scheduler keeps taking its next step
FairnessMaint ==
    /\ WF_vars(Tick(MaxClockMaint))
    /\ WF_vars(ban_write(ClientThread) \/ ban_insert(ClientThread))
    /\ WF_vars(Maintenance(MaintThread))

SpecMaint == InitMaint /\ [][NextMaint]_vars /\ FairnessMaint

(* ---------------------------------------------------------------------- *)
(* Claims                                                                 *)
(* ---------------------------------------------------------------------- *)

\* every entry of every shard's mapping
Entries == UNION {banlist[i] : i \in DOMAIN banlist}

Returned(t, op) == pc[t] = "done" /\ ret[t].op = op

\* C1: no mapping of the table ever holds an entry of a Primary-role
\* endpoint, under every interleaving of the six operations; is_banned of a
\* primary is false in the table and false in every answer a call returns.
C1_PrimaryNeverBanned ==
    /\ \A e \in Entries : e.address.role # "Primary"
    /\ \A a \in Addresses :
         a.role = "Primary" /\ InRange(banlist, a.shard) => ~is_banned(banlist, a)
    /\ \A t \in Threads :
         Returned(t, "is_banned") /\ ret[t].address.role = "Primary"
            => ret[t].value = "false"

\* ban(primary) has returned in one task while a replica of the same shard is
\* banned, and is_banned(primary) has answered false in the other
C1_Witness ==
    \E t, u \in Threads :
       /\ Returned(t, "ban") /\ ret[t].address = P0
       /\ Returned(u, "is_banned") /\ ret[u].address = P0 /\ ret[u].value = "false"
       /\ Slot(banlist, 0) # {}

\* C2: from the return of ban(e, r) on a non-primary e until the next unban(e),
\* unban_all_replicas on e's shard or ban(e, _) takes effect, is_banned(e) is
\* true and get_bans() holds an entry for e with reason r whose timestamp lies
\* between the clock at the start of the call and the clock at its return.
C2_BanLookupConsistency ==
    \A e \in Addresses :
       last_ban[e] # NoBan =>
          /\ e.role # "Primary"
          /\ InRange(banlist, e.shard)
          /\ is_banned(banlist, e)
          /\ \E x \in BagToSet(get_bans(banlist)) :
                /\ x.address = e
                /\ x.reason = last_ban[e].reason
                /\ last_ban[e].started <= x.timestamp
                /\ x.timestamp <= clock

\* a ban that started after the clock had advanced has returned and its record
\* is in force, next to the record of another replica
C2_Witness ==
    \E t \in Threads, e \in Addresses :
       /\ Returned(t, "ban") /\ ret[t].address = e
       /\ last_ban[e] # NoBan /\ last_ban[e].started > 0
       /\ \E x \in Entries : x.address # e

\* C3: last write wins.  No mapping holds two records of one endpoint, get_bans
\* lists an endpoint at most once, and the one record of an endpoint is the
\* one of the last ban that took effect, whatever record it replaced.
C3_LastWriteWins ==
    /\ \A i \in DOMAIN banlist, a \in Addresses :
         Cardinality(MapGet(banlist[i], a)) <= 1
    /\ \A a \in Addresses :
         Cardinality({x \in BagToSet(get_bans(banlist)) : x.address = a}) <= 1
    /\ \A x \in BagToSet(get_bans(banlist)) : CopiesIn(x, get_bans(banlist)) = 1
    /\ \A e \in Addresses :
         last_ban[e] # NoBan =>
            /\ Cardinality(MapGet(Slot(banlist, e.shard), e)) = 1
            /\ \A x \in MapGet(Slot(banlist, e.shard), e) :
                  x.reason = last_ban[e].reason

\* ban(e, FailedHealthCheck) then ban(e, StatementTimeout): the second ban
\* replaced the first one's record
C3_Witness ==
    \E e \in Addresses :
       /\ last_ban[e] # NoBan
       /\ last_ban[e].reason = Auto("StatementTimeout")
       /\ last_ban[e].replaced = {Auto("FailedHealthCheck")}
       /\ MapGet(Slot(banlist, e.shard), e) # {}

\* task t is inside a call that was given an address
Calling(t, op) == pc[t] \notin {"idle", "done"} /\ frame[t].op = op

\* task t takes the step that ends its call with a result
Returns(t) == pc[t] # "done" /\ pc'[t] = "done"

\* C4: unban is total and idempotent: for every endpoint and every table state
\* it ends without error, the endpoint has no entry afterwards, and removing
\* twice leaves the mapping that removing once leaves.
C4_UnbanIdempotentTotal ==
    /\ \A t \in Threads : ~(pc[t] = "panicked" /\ frame[t].op = "unban")
    /\ \A t \in Threads :
         Returned(t, "unban") =>
            /\ InRange(banlist, ret[t].address.shard)
            /\ ~is_banned(banlist, ret[t].address)
    /\ \A i \in DOMAIN banlist, a \in Addresses :
         Unbanned(Unbanned(banlist[i], a), a) = Unbanned(banlist[i], a)

\* C5: for a replica banned with AdminBan(d) at t0, a should_unban that gets
\* as far as the record lookup at time t returns BanTimeExceeded when
\* t - t0 > d and nothing when t - t0 <= d, whatever ban_time is.
C5_AdminBanExpiry ==
    [][\A t \in Threads :
         (pc[t] = "should_unban_get" /\ Returns(t)) =>
            \A record \in MapGet(Slot(banlist, frame[t].address.shard),
                                 frame[t].address) :
               record.reason.kind = "AdminBan" =>
                  ret'[t].value =
                     IF clock - record.timestamp > record.reason.duration
                     THEN "BanTimeExceeded" ELSE "None"]_vars

\* an admin ban is declared expired although ban_time has not passed
C5_Witness ==
    \E t \in Threads :
       /\ Returned(t, "should_unban") /\ ret[t].value = "BanTimeExceeded"
       /\ \E record \in MapGet(Slot(banlist, 0), ret[t].address) :
             /\ record.reason.kind = "AdminBan"
             /\ clock - record.timestamp > record.reason.duration
             /\ clock - record.timestamp <= ban_time

\* C6: for a replica banned at t0 with an automatic reason, a should_unban that
\* gets as far as the record lookup at time t returns BanTimeExceeded iff
\* t - t0 > ban_time, and nothing at t - t0 = ban_time.
C6_DefaultBanExpiry ==
    [][\A t \in Threads :
         (pc[t] = "should_unban_get" /\ Returns(t)) =>
            \A record \in MapGet(Slot(banlist, frame[t].address.shard),
                                 frame[t].address) :
               record.reason.kind \in AutoKinds =>
                  /\ ret'[t].value \in {"BanTimeExceeded", "None"}
                  /\ ret'[t].value = "BanTimeExceeded"
                        <=> clock - record.timestamp > ban_time]_vars

\* a FailedCheckout ban is declared expired one second after ban_time
C6_Witness ==
    \E t \in Threads :
       /\ Returned(t, "should_unban") /\ ret[t].value = "BanTimeExceeded"
       /\ \E record \in MapGet(Slot(banlist, 0), ret[t].address) :
             /\ record.reason = Auto("FailedCheckout")
             /\ clock - record.timestamp = ban_time + 1

\* the Replica-role addresses the topology configures for a shard
ConfiguredReplicas(pool_addresses, shard) ==
    {i \in DOMAIN pool_addresses[shard + 1] :
        pool_addresses[shard + 1][i].role = "Replica"}

\* the threshold the record of a ban is held to
Threshold(record) ==
    IF record.reason.kind = "AdminBan" THEN record.reason.duration ELSE ban_time

\* C7: with failover to the primary disabled, when the shard's mapping holds
\* as many entries as the topology configures replicas for the shard,
\* should_unban of a replica of the shard returns AllReplicasBanned at the
\* count, before any record is looked up or held to its threshold.
C7_AllReplicasBanned ==
    [][\A t \in Threads :
         ( /\ Calling(t, "should_unban")
           /\ pc[t] \in {"should_unban_read1", "should_unban_count"}
           /\ pc'[t] \notin {"should_unban_read1", "should_unban_count"}
           /\ ~replica_to_primary_failover_enabled
           /\ frame[t].address.role = "Replica"
           /\ InRange(banlist, frame[t].address.shard)
           /\ Cardinality(Slot(banlist, frame[t].address.shard)) =
                 Cardinality(ConfiguredReplicas(frame[t].pool_addresses,
                                                frame[t].address.shard)) )
         => /\ pc'[t] = "done"
            /\ ret'[t].value = "AllReplicasBanned"]_vars

\* both replicas of shard 0 are banned, neither ban has passed its threshold,
\* and should_unban(r1) has returned AllReplicasBanned
C7_Witness ==
    \E t \in Threads :
       /\ Returned(t, "should_unban") /\ ret[t].value = "AllReplicasBanned"
       /\ ret[t].address = R1
       /\ ~replica_to_primary_failover_enabled
       /\ {e.address : e \in Slot(banlist, 0)} = {R1, R2}
       /\ \A e \in Slot(banlist, 0) : clock - e.timestamp <= Threshold(e)

\* C8: unban_all_replicas(e) ends without error for every endpoint, also when
\* the shard has no bans, and afterwards no endpoint of e's shard is banned.
C8_BulkRecovery ==
    /\ \A t \in Threads :
         ~(pc[t] = "panicked" /\ frame[t].op = "unban_all_replicas")
    /\ \A t \in Threads :
         Returned(t, "unban_all_replicas") =>
            \A x \in Addresses :
               x.shard = ret[t].address.shard =>
                  InRange(banlist, x.shard) /\ ~is_banned(banlist, x)

\* C9 as stated: should_unban of an endpoint that has no ban record returns
\* NotBanned, for every topology, failover setting and content of the table.
C9_NotBannedAlways ==
    \A t \in Threads :
       ( /\ Returned(t, "should_unban")
         /\ InRange(banlist, ret[t].address.shard)
         /\ ~is_banned(banlist, ret[t].address) )
       => ret[t].value = "NotBanned"

\* C9 as amended: should_unban of a Replica-role endpoint that has no ban
\* record returns NotBanned, unless failover is disabled and the shard's
\* mapping holds as many entries as the topology configures replicas for the
\* shard: then it returns AllReplicasBanned.  For a Primary-role endpoint it
\* returns PrimaryBanned.
C9_NotBannedVerdict ==
    [][\A t \in Threads :
         ( /\ Returns(t)
           /\ ret'[t].op = "should_unban"
           /\ InRange(banlist, ret'[t].address.shard)
           /\ ~is_banned(banlist, ret'[t].address) )
         => IF ret'[t].address.role = "Primary"
            THEN ret'[t].value = "PrimaryBanned"
            ELSE IF /\ ~replica_to_primary_failover_enabled
                    /\ pc[t] = "should_unban_count"
                    /\ Cardinality(Slot(banlist, ret'[t].address.shard)) =
                          Cardinality(ConfiguredReplicas(
                              frame[t].pool_addresses, ret'[t].address.shard))
                 THEN ret'[t].value = "AllReplicasBanned"
                 ELSE ret'[t].value = "NotBanned"]_vars

\* with failover disabled and the other replica banned, should_unban of the
\* replica that has no record has returned NotBanned
C9_Witness ==
    \E t \in Threads :
       /\ Returned(t, "should_unban") /\ ret[t].value = "NotBanned"
       /\ ret[t].address = R1
       /\ ~replica_to_primary_failover_enabled
       /\ {e.address : e \in Slot(banlist, 0)} = {R2}

\* C10: the table new builds has a mapping for every shard of the topology,
\* so that no call made with an endpoint whose shard index is below the
\* topology's shard count hits the out-of-range condition.
C10_TableCoversTopology ==
    \A p \in Topologies, t \in Threads :
       pc[t] = "panicked" =>
          /\ Len(banlist) = Len(p)
          /\ ~(frame[t].address.shard < Len(p))

\* the four reasons of lines 58-61, written out
CountedKinds ==
    {"FailedHealthCheck", "FailedCheckout", "MessageSendFailed",
     "MessageReceiveFailed"}

\* task t takes the first step of a call
StartsCall(t) == pc[t] = "idle" /\ pc'[t] # "idle"

\* C11 as stated: ban on a Primary-role endpoint changes nothing, for every
\* reason and with or without a sink: the table, the sink's and the endpoint's
\* error statistics, the ban events and the endpoint's error counter are all
\* left as they were.
C11_PrimaryBanSilent ==
    [][\A t \in Threads, a \in Addresses, r \in BanReason, c \in BOOLEAN :
         (a.role = "Primary" /\ StartsCall(t) /\ ban_enter(t, a, r, c)) =>
            /\ pc'[t] = "done"
            /\ UNCHANGED <<banlist, lock, ban_errors, stats_errors, ban_events>>
            /\ UNCHANGED error_count]_vars

\* C11 as amended: ban on a Primary-role endpoint returns without taking the
\* lock and leaves the table, the sink, the endpoint's error statistics and the
\* ban events as they were; the endpoint's error counter goes up by one when
\* the reason is one of the four counted ones and is unchanged otherwise, and
\* no other endpoint's counter moves.
C11_PrimaryBanCountsOnly ==
    [][\A t \in Threads, a \in Addresses, r \in BanReason, c \in BOOLEAN :
         (a.role = "Primary" /\ StartsCall(t) /\ ban_enter(t, a, r, c)) =>
            /\ pc'[t] = "done"
            /\ UNCHANGED <<banlist, lock, ban_errors, stats_errors, ban_events>>
            /\ error_count' =
                 [error_count EXCEPT ![a] =
                    IF r.kind \in CountedKinds THEN @ + 1 ELSE @]]_vars

\* ban(p0, r) has returned for a counted reason r: the primary's counter
\* stands at one, the table is empty and neither the sink nor the log has
\* heard of a ban
C11_Witness ==
    \E t \in Threads :
       /\ Returned(t, "ban") /\ ret[t].address = P0
       /\ error_count[P0] = 1
       /\ Entries = {}
       /\ ban_errors = 0 /\ stats_errors[P0] = 0 /\ ban_events = 0

\* the Replica-role endpoints the topology configures for a shard
ReplicaSet(pool_addresses, shard) ==
    {pool_addresses[shard + 1][i] : i \in ConfiguredReplicas(pool_addresses, shard)}

\* the endpoints that have an entry in the mapping m
BannedIn(m) == {e.address : e \in m}

\* task t takes the step of should_unban that compares the counts, with
\* failover disabled, for one of the shard's configured replicas, in a table
\* state in which every configured replica of the shard is banned
CountsWithAllBanned(t) ==
    /\ pc[t] = "should_unban_count"
    /\ pc'[t] # "should_unban_count"
    /\ ~replica_to_primary_failover_enabled
    /\ InRange(banlist, frame[t].address.shard)
    /\ frame[t].address \in
          ReplicaSet(frame[t].pool_addresses, frame[t].address.shard)
    /\ ReplicaSet(frame[t].pool_addresses, frame[t].address.shard)
          \subseteq BannedIn(Slot(banlist, frame[t].address.shard))

\* C12 as stated: with failover disabled, in every table state in which every
\* replica the topology configures for a shard is banned, should_unban of any
\* of those replicas returns AllReplicasBanned.
C12_NeverStranded ==
    [][\A t \in Threads :
         CountsWithAllBanned(t) =>
            /\ pc'[t] = "done"
            /\ ret'[t].value = "AllReplicasBanned"]_vars

\* C12 as amended: the same, provided that the topology lists each replica of
\* the shard once and the shard's mapping holds entries of those replicas only.
C12_NeverStrandedConfigured ==
    [][\A t \in Threads :
         ( /\ CountsWithAllBanned(t)
           /\ frame[t].replicas_available =
                 Cardinality(ReplicaSet(frame[t].pool_addresses,
                                        frame[t].address.shard))
           /\ BannedIn(Slot(banlist, frame[t].address.shard)) \subseteq
                 ReplicaSet(frame[t].pool_addresses, frame[t].address.shard) )
         => /\ pc'[t] = "done"
            /\ ret'[t].value = "AllReplicasBanned"]_vars

\* r1 is the one banned endpoint of shard 0, banned by an admin for longer
\* than the clock has run, and should_unban(r1) has returned AllReplicasBanned:
\* the topology it was given configures r1 as the shard's only replica
C12_Witness ==
    \E t \in Threads :
       /\ Returned(t, "should_unban") /\ ret[t].value = "AllReplicasBanned"
       /\ ret[t].address = R1
       /\ ~replica_to_primary_failover_enabled
       /\ BannedIn(Slot(banlist, 0)) = {R1}
       /\ \A e \in Slot(banlist, 0) :
             e.reason.kind = "AdminBan" /\ clock - e.timestamp <= e.reason.duration

\* the record of a ban that was given a sink is in the table only after the
\* sink and the endpoint's statistic have been updated, and between the two
\* updates and the insert the task holds the lock exclusively
NotifiedBeforeVisible ==
    /\ \A e \in Addresses :
         (last_ban[e] # NoBan /\ last_ban[e].client_info) =>
            ban_errors >= 1 /\ stats_errors[e] >= 1
    /\ \A t \in Threads :
         pc[t] = "ban_insert" =>
            /\ lock = [writer |-> t, readers |-> {}]
            /\ \A u \in Threads \ {t} :
                  pc[u] \notin {"ban_insert", "unban_remove", "is_banned_get",
                                "get_bans_iter", "unban_all_replicas_clear",
                                "should_unban_count", "should_unban_get"}
            /\ frame[t].client_info =>
                  ban_errors >= 1 /\ stats_errors[frame[t].address] >= 1

\* the sink and the endpoints' statistics move only in the step of a ban that
\* was given a sink and has just taken the write lock, both by one, and the
\* table is the same before and after that step
SinkUpdatesOnlyInBan ==
    (ban_errors' # ban_errors \/ stats_errors' # stats_errors) =>
       \E t \in Threads :
          /\ pc[t] = "ban_write" /\ pc'[t] = "ban_insert"
          /\ frame[t].client_info
          /\ lock'.writer = t
          /\ ban_errors' = ban_errors + 1
          /\ stats_errors' =
               [stats_errors EXCEPT ![frame[t].address] = @ + 1]
          /\ banlist' = banlist

\* C13: when a stats sink is supplied, ban notifies the sink and updates the
\* endpoint's error statistic before its record is in the table, both under
\* the write lock it holds until the insert, so no concurrent is_banned,
\* get_bans or should_unban reads the record of a ban that has not notified;
\* without a sink neither update happens.
C13_SinkBeforeRecord ==
    []NotifiedBeforeVisible /\ [][SinkUpdatesOnlyInBan]_vars

\* is_banned(r1) has answered true in one task on the record of a ban that the
\* other task made with a sink: the sink has been notified once
C13_Witness ==
    \E t \in Threads :
       /\ Returned(t, "is_banned") /\ ret[t].address = R1 /\ ret[t].value = "true"
       /\ last_ban[R1] # NoBan /\ last_ban[R1].client_info
       /\ ban_errors = 1 /\ stats_errors[R1] = 1
       /\ \E u \in Threads \ {t} : Returned(u, "ban") /\ ret[u].address = R1

\* C14: ban raises the endpoint's own error counter by exactly one when the
\* reason is FailedHealthCheck, FailedCheckout, MessageSendFailed or
\* MessageReceiveFailed and leaves it alone for StatementTimeout and AdminBan;
\* no other step of any operation changes a counter, and no counter decreases.
C14_ErrorCounter ==
    [][/\ \A t \in Threads, a \in Addresses, r \in BanReason, c \in BOOLEAN :
            (StartsCall(t) /\ ban_enter(t, a, r, c)) =>
               error_count' =
                  [error_count EXCEPT ![a] =
                     IF r.kind \in CountedKinds THEN @ + 1 ELSE @]
       /\ error_count' # error_count =>
            \E t \in Threads, a \in Addresses, r \in BanReason, c \in BOOLEAN :
               r.kind \in CountedKinds /\ ban_enter(t, a, r, c)
       /\ \A a \in Addresses : error_count'[a] >= error_count[a]]_vars

\* r1 was banned for a failed message send and then again for a statement
\* timeout: its counter stands at one
C14_Witness ==
    /\ last_ban[R1] # NoBan
    /\ last_ban[R1].reason = Auto("StatementTimeout")
    /\ last_ban[R1].replaced = {Auto("MessageSendFailed")}
    /\ error_count[R1] = 1
    /\ ban_events = 2

\* the places of a call at which the task holds the lock, exclusively or shared
WriteHolding == {"ban_insert", "unban_remove", "unban_all_replicas_clear"}

ReadHolding ==
    {"is_banned_get", "get_bans_iter", "should_unban_count", "should_unban_get"}

Holds(t) == lock.writer = t \/ t \in lock.readers

\* a task holds the lock exactly while it is under a guard, never in both
\* modes, never while a writer and a reader hold it together, and never once
\* its call has returned or unwound
LockDiscipline ==
    /\ lock.writer # "none" => lock.readers = {}
    /\ \A t \in Threads :
         /\ lock.writer = t <=> pc[t] \in WriteHolding
         /\ t \in lock.readers <=> pc[t] \in ReadHolding
         /\ ~(lock.writer = t /\ t \in lock.readers)

\* a task takes the lock as the first acquisition of its call, or as the
\* second one of should_unban; it gives the lock up in its next step, which
\* ends the call unless it is the count of should_unban
AcquireRelease ==
    \A t \in Threads :
       /\ (~Holds(t) /\ Holds(t)') =>
             \/ pc[t] \in {"idle", "ban_write", "should_unban_read1"}
             \/ pc[t] = "should_unban_read2" /\ pc'[t] = "should_unban_get"
       /\ (Holds(t) /\ pc'[t] # pc[t]) =>
             /\ ~Holds(t)'
             /\ \/ pc'[t] \in {"done", "panicked"}
                \/ pc[t] = "should_unban_count" /\ pc'[t] = "should_unban_read2"
       /\ pc[t] = "should_unban_get" => pc'[t] \in {pc[t], "done", "panicked"}

\* C15: no deadlock.  Every operation takes the lock at most twice
\* (should_unban twice, the others once), never holds it shared and exclusive
\* together, gives it up on every way out and never calls back in while it
\* holds it; hence under a fair scheduler and a fair lock every call that has
\* started returns.
C15_NoDeadlock ==
    /\ []LockDiscipline
    /\ [][AcquireRelease]_vars
    /\ \A t \in Threads : (pc[t] \notin {"idle", "done"}) ~> (pc[t] = "done")

\* what the table keeps true whatever is done to it: as many mappings as new
\* built, no entry of a primary, one record per endpoint at most
TableInvariants ==
    /\ Len(banlist) = InitialSlots
    /\ \A e \in Entries : e.address.role # "Primary"
    /\ \A i \in DOMAIN banlist, a \in Addresses :
          Cardinality(MapGet(banlist[i], a)) <= 1

\* between the count and the lookup should_unban holds no access to the
\* table; a verdict on a replica is only ever returned for
\* an endpoint whose shard is inside the table
BetweenGuards ==
    /\ \A t \in Threads :
         pc[t] = "should_unban_read2" => ~Holds(t)
    /\ \A t \in Threads :
         (Returned(t, "should_unban") /\ ret[t].address.role = "Replica")
            => InRange(banlist, ret[t].address.shard)

\* the lookup answers from the table as it is under the second guard, also
\* when the record seen under the first guard is gone; and an unban or an
\* unban_all_replicas on a shard inside the table returns and keeps the table
\* invariants
StaleVerdictSafe ==
    \A t \in Threads :
       /\ ( /\ pc[t] = "should_unban_get" /\ Returns(t)
            /\ ~is_banned(banlist, frame[t].address) )
          => ret'[t].value = "NotBanned"
       /\ ( /\ pc[t] \in {"unban_remove", "unban_all_replicas_clear"}
            /\ pc'[t] # pc[t]
            /\ InRange(banlist, frame[t].address.shard) )
          => /\ pc'[t] = "done"
             /\ TableInvariants'
             /\ ~is_banned(banlist', frame[t].address)

\* C16: should_unban reads in two phases.  With failover disabled it gives up
\* shared access after the count and takes it again for the lookup, so another
\* task's ban, unban or unban_all_replicas can take effect between the two and
\* the verdict can rest on two table states; acting on such a verdict with
\* unban or unban_all_replicas returns without error and keeps the table
\* invariants.
C16_TwoPhaseRead ==
    []TableInvariants /\ []BetweenGuards /\ [][StaleVerdictSafe]_vars

\* should_unban(r1) saw r1's record under its first guard and has returned
\* NotBanned: the other task's unban(r1) took effect between the two guards
C16_Witness ==
    \E t, u \in Threads :
       /\ ~replica_to_primary_failover_enabled
       /\ Returned(t, "should_unban") /\ ret[t].address = R1
       /\ ret[t].value = "NotBanned" /\ ret[t].was_banned
       /\ Returned(u, "unban") /\ ret[u].address = R1

\* C17: with failover to the primary enabled should_unban never returns
\* AllReplicasBanned, however many replicas of the shard are banned: for a
\* replica the verdict follows from the endpoint's own record alone, NotBanned
\* without one, BanTimeExceeded when the time since its timestamp exceeds its
\* threshold, nothing otherwise.  For a primary the verdict is PrimaryBanned
\* under either setting and whatever the table holds.
C17_FailoverEnabledVerdict ==
    [][\A t \in Threads :
         (Returns(t) /\ ret'[t].op = "should_unban") =>
            /\ ret'[t].address.role = "Primary" =>
                  ret'[t].value = "PrimaryBanned"
            /\ ( /\ replica_to_primary_failover_enabled
                 /\ ret'[t].address.role = "Replica" ) =>
                  /\ ret'[t].value # "AllReplicasBanned"
                  /\ InRange(banlist, ret'[t].address.shard)
                  /\ LET found == MapGet(Slot(banlist, ret'[t].address.shard),
                                         ret'[t].address)
                     IN  IF found = {}
                         THEN ret'[t].value = "NotBanned"
                         ELSE \A record \in found :
                                 ret'[t].value =
                                    IF clock - record.timestamp > Threshold(record)
                                    THEN "BanTimeExceeded" ELSE "None"]_vars

\* failover is enabled, both replicas of shard 0 are banned, and
\* should_unban(r1) has returned nothing: r1's ban has not passed its time
C17_Witness ==
    \E t \in Threads :
       /\ replica_to_primary_failover_enabled
       /\ Returned(t, "should_unban") /\ ret[t].address = R1
       /\ ret[t].value = "None"
       /\ BannedIn(Slot(banlist, 0)) = {R1, R2}

\* C18: bans are temporary.  While the clock keeps advancing, bans stop and the
\* maintenance scheduler keeps asking should_unban about banned endpoints and
\* acting on positive verdicts, every endpoint that is banned is eventually
\* not banned, whatever the reason of its ban and the failover setting.
C18_BansAreTemporary ==
    \A e \in Addresses :
       (e \in BannedIn(Entries)) ~> (e \notin BannedIn(Entries))

\* with failover enabled r1 was banned, the scheduler's unban(r1) has returned
\* after the clock had passed the shortest threshold, and r2 is still banned
C18_Witness ==
    /\ replica_to_primary_failover_enabled
    /\ Returned(MaintThread, "unban") /\ ret[MaintThread].address = R1
    /\ BannedIn(Entries) = {R2}
    /\ clock >= 2

\* the entries by which the mapping at index i differs before and after a step
Changed(i) ==
    (banlist[i] \ banlist'[i]) \cup (banlist'[i] \ banlist[i])

\* task t takes a step
Moves(t) == pc'[t] # pc[t]

\* what one step may do to the table and to the configuration
FrameOfStep ==
    /\ DOMAIN banlist' = DOMAIN banlist
    /\ UNCHANGED <<replica_to_primary_failover_enabled, ban_time>>
    /\ (\A t \in Threads : ~Moves(t)) => banlist' = banlist
    /\ \A t \in Threads :
         Moves(t) =>
            IF pc[t] \in {"ban_insert", "unban_remove"}
            THEN /\ frame[t].op \in {"ban", "unban"}
                 /\ \A i \in DOMAIN banlist : \A e \in Changed(i) :
                       /\ e.address = frame[t].address
                       /\ i = frame[t].address.shard + 1
            ELSE IF pc[t] = "unban_all_replicas_clear"
            THEN /\ frame[t].op = "unban_all_replicas"
                 /\ \A i \in DOMAIN banlist :
                       IF i = frame[t].address.shard + 1
                       THEN banlist'[i] = {}
                       ELSE banlist'[i] = banlist[i]
            ELSE banlist' = banlist

\* C19: ban(e, r) and unban(e) change at most the entry of e in the mapping of
\* e's shard; unban_all_replicas(e) empties the mapping of e's shard and no
\* other; is_banned, get_bans, should_unban and every step that is not the
\* insert, the remove or the clear leave the table as it is; the table keeps
\* its length, and ban_time and replica_to_primary_failover_enabled never
\* change.
C19_FrameIsolation == [][FrameOfStep]_vars

\* unban(r1) has returned and the record of r2, banned before it, is still the
\* one its ban stored
C19_Witness ==
    \E t \in Threads :
       /\ Returned(t, "unban") /\ ret[t].address = R1
       /\ ~is_banned(banlist, R1)
       /\ last_ban[R2] # NoBan
       /\ \E e \in Slot(banlist, 0) :
             e.address = R2 /\ e.reason = last_ban[R2].reason

\* C20: a second ban restarts the expiry clock and replaces the threshold.
\* The record should_unban finds is the one of the last ban, stamped inside
\* that call, and the verdict is BanTimeExceeded exactly when the time since
\* that stamp exceeds the threshold of that ban's reason, whatever record it
\* replaced; while the time since the start of the last ban is within its
\* threshold the verdict is never BanTimeExceeded.
C20_RebanRestartsClock ==
    [][\A t \in Threads :
         (pc[t] = "should_unban_get" /\ Returns(t)) =>
            \A record \in MapGet(Slot(banlist, frame[t].address.shard),
                                 frame[t].address) :
               /\ last_ban[frame[t].address] # NoBan
               /\ record.reason = last_ban[frame[t].address].reason
               /\ record.timestamp >= last_ban[frame[t].address].started
               /\ ret'[t].value = "BanTimeExceeded"
                     <=> clock - record.timestamp > Threshold(record)
               /\ clock - last_ban[frame[t].address].started <= Threshold(record)
                     => ret'[t].value = "None"]_vars

\* r1 was banned by an admin for one second and banned again for two: two
\* seconds after the second ban, which is more than the first ban's threshold
\* after either, should_unban(r1) has returned nothing
C20_Witness ==
    \E t \in Threads :
       /\ Returned(t, "should_unban") /\ ret[t].address = R1
       /\ ret[t].value = "None"
       /\ last_ban[R1] # NoBan
       /\ last_ban[R1].replaced = {AdminBan(1)}
       /\ \E record \in MapGet(Slot(banlist, 0), R1) :
             /\ record.reason = AdminBan(2)
             /\ clock - record.timestamp = 2

====
